---------------------------- MODULE Spec2Model ----------------------------
(***************************************************************************)
(* Model of the two bookmark tools                                         *)
(*   src/dedupe_chromium_bookmarks.py        (prune engine)                *)
(*   src/dedupe_merge_netscape_bookmarks.py  (flatten engine)              *)
(*                                                                         *)
(* A Python str is a sequence of one-character strings, so that strip,     *)
(* lower, split and the URL functions are computed character by character. *)
(* A dict is a set of <<key, value>> pairs with unique keys.  An Optional  *)
(* is a sequence of length 0 (None) or 1.  Folder and Bookmark objects     *)
(* live in two heaps (sequences); a reference is the index in its heap,    *)
(* which is the object's identity.                                         *)
(***************************************************************************)
EXTENDS Integers, Sequences, FiniteSets, TLC

(***************************************************************************)
(* Bounds of the model.                                                    *)
(***************************************************************************)
MaxFolders == 3
MaxBookmarks == 3
MaxNodes == 5

(***************************************************************************)
(* str helpers                                                             *)
(***************************************************************************)
UpperChars == <<"A","B","C","D","E","F","G","H","I","J","K","L","M",
                "N","O","P","Q","R","S","T","U","V","W","X","Y","Z">>
LowerChars == <<"a","b","c","d","e","f","g","h","i","j","k","l","m",
                "n","o","p","q","r","s","t","u","v","w","x","y","z">>
Digits == <<"0","1","2","3","4","5","6","7","8","9">>

Range(s) == { s[i] : i \in 1..Len(s) }

\* printable ASCII, code 32 .. 126: Ascii[c - 31] is the character of code c
\* (code 96, the grave accent, is written "grave")
Ascii == <<" ","!","\"","#","$","%","&","'","(",")","*","+",",","-",".","/">>
         \o Digits \o <<":",";","<","=",">","?","@">>
         \o UpperChars \o <<"[","\\","]","^","_","grave">>
         \o LowerChars \o <<"{","|","}","~">>

\* the no-break space U+00A0, one character of the model
NBSP == "nbsp"

\* the characters str.strip() and the regex class \s take as whitespace
Whitespace == {" ", "\t", "\n", "\r", NBSP}

lower_char(c) ==
    IF \E i \in 1..26 : UpperChars[i] = c
    THEN LowerChars[CHOOSE i \in 1..26 : UpperChars[i] = c]
    ELSE IF c = "Acirc" THEN "acirc"
    ELSE c

\* str.lower()
lower(s) == [i \in 1..Len(s) |-> lower_char(s[i])]

\* str.find(c, start) with 1-based positions; 0 when absent
find(s, c, start) ==
    IF \E i \in start..Len(s) : s[i] = c
    THEN CHOOSE i \in start..Len(s) : s[i] = c /\ \A j \in start..(i-1) : s[j] # c
    ELSE 0

\* s[from:] with a 1-based first position
tail_from(s, from) == SubSeq(s, from, Len(s))

\* str.lstrip(chars) / str.rstrip(chars) / str.strip(chars)
RECURSIVE lstrip(_, _)
lstrip(s, chars) ==
    IF s # <<>> /\ Head(s) \in chars THEN lstrip(Tail(s), chars) ELSE s

RECURSIVE rstrip(_, _)
rstrip(s, chars) ==
    IF s # <<>> /\ s[Len(s)] \in chars
    THEN rstrip(SubSeq(s, 1, Len(s) - 1), chars)
    ELSE s

strip(s, chars) == rstrip(lstrip(s, chars), chars)

\* s[:n]
prefix(s, n) == SubSeq(s, 1, IF n < Len(s) THEN n ELSE Len(s))

\* "".join(parts)
RECURSIVE join(_)
join(parts) == IF parts = <<>> THEN <<>> ELSE Head(parts) \o join(Tail(parts))

\* sep.join(parts) for a one-character sep
RECURSIVE join_with(_, _)
join_with(parts, sep) ==
    IF parts = <<>> THEN <<>>
    ELSE IF Len(parts) = 1 THEN parts[1]
    ELSE parts[1] \o <<sep>> \o join_with(Tail(parts), sep)

\* str.split(sep) for a one-character sep: all the pieces
RECURSIVE split(_, _)
split(s, sep) ==
    LET i == find(s, sep, 1) IN
    IF i = 0 THEN <<s>>
    ELSE <<SubSeq(s, 1, i - 1)>> \o split(tail_from(s, i + 1), sep)

\* str.split(sep, 1): at most two pieces
split1(s, sep) ==
    LET i == find(s, sep, 1) IN
    IF i = 0 THEN <<s>>
    ELSE <<SubSeq(s, 1, i - 1), tail_from(s, i + 1)>>

\* str.replace(a, b) for one-character a and b
replace_char(s, a, b) == [i \in 1..Len(s) |-> IF s[i] = a THEN b ELSE s[i]]

\* dict.get(key): an Optional
dict_get(d, k) ==
    IF \E p \in d : p[1] = k THEN <<(CHOOSE p \in d : p[1] = k)[2]>> ELSE <<>>

(***************************************************************************)
(* urllib.parse, as far as normalize_url uses it (CPython 3.11)            *)
(***************************************************************************)
HexDigits == Digits \o <<"A","B","C","D","E","F">>

hex_value(c) ==
    IF \E i \in 1..16 : HexDigits[i] = c
    THEN (CHOOSE i \in 1..16 : HexDigits[i] = c) - 1
    ELSE IF \E i \in 1..6 : LowerChars[i] = c
    THEN (CHOOSE i \in 1..6 : LowerChars[i] = c) + 9
    ELSE -1

ascii_code(c) ==
    IF \E i \in 1..Len(Ascii) : Ascii[i] = c
    THEN (CHOOSE i \in 1..Len(Ascii) : Ascii[i] = c) + 31
    ELSE -1

\* the characters quote() never escapes
AlwaysSafe == Range(UpperChars) \cup Range(LowerChars) \cup Range(Digits)
              \cup {"_", ".", "-", "~"}

\* quote_plus(s, safe=''): a space becomes "+", an unsafe character %XX
quote_plus_char(c) ==
    IF c = " " THEN <<"+">>
    ELSE IF c \in AlwaysSafe THEN <<c>>
    ELSE LET n == ascii_code(c) IN
         <<"%", HexDigits[(n \div 16) + 1], HexDigits[(n % 16) + 1]>>

RECURSIVE quote_plus(_)
quote_plus(s) ==
    IF s = <<>> THEN <<>> ELSE quote_plus_char(Head(s)) \o quote_plus(Tail(s))

\* the character of the escape %hl, as a str; <<>> when %hl is no escape of
\* a printable ASCII character
unescape(h, l) ==
    IF h >= 0 /\ l >= 0 /\ 16 * h + l \in 32..126 THEN <<Ascii[16 * h + l - 31]>>
    ELSE <<>>

\* unquote(s): every %XX with two hex digits becomes the character of that code
RECURSIVE unquote(_)
unquote(s) ==
    IF s = <<>> THEN <<>>
    ELSE IF s[1] = "%" /\ Len(s) >= 3 /\ unescape(hex_value(s[2]), hex_value(s[3])) # <<>>
         THEN unescape(hex_value(s[2]), hex_value(s[3])) \o unquote(tail_from(s, 4))
         ELSE <<s[1]>> \o unquote(Tail(s))

scheme_chars == Range(UpperChars) \cup Range(LowerChars) \cup Range(Digits)
                \cup {"+", "-", "."}

IsAlpha(c) == c \in Range(UpperChars) \cup Range(LowerChars)

\* the schemes of urllib.parse.uses_netloc that the model's URLs can carry
uses_netloc == { <<"h","t","t","p">>, <<"h","t","t","p","s">>, <<"f","t","p">>,
                 <<"f","i","l","e">>, <<"w","s">>, <<"w","s","s">>,
                 <<"g","i","t">>, <<"s","v","n">>, <<"n","f","s">> }

\* s.partition(c)[0] and s.partition(c)[2] for a one-character c
before(s, c) == IF find(s, c, 1) > 0 THEN SubSeq(s, 1, find(s, c, 1) - 1) ELSE s
after(s, c) == IF find(s, c, 1) > 0 THEN tail_from(s, find(s, c, 1) + 1) ELSE <<>>

\* _splitnetloc(url, 2): 1-based position of the earliest of "/?#" after "//"
netloc_end(url) ==
    IF \E i \in 3..Len(url) : url[i] \in {"/", "?", "#"}
    THEN CHOOSE i \in 3..Len(url) :
            /\ url[i] \in {"/", "?", "#"}
            /\ \A j \in 3..(i-1) : url[j] \notin {"/", "?", "#"}
    ELSE Len(url) + 1

\* urlsplit raises ValueError on a netloc whose brackets do not pair up
urlsplit_raises(netloc) ==
    ("[" \in Range(netloc)) # ("]" \in Range(netloc))

\* urlsplit, last step: the query is cut off at the first "?"
urlsplit_query(scheme, netloc, url, fragment) ==
    [ok |-> ~urlsplit_raises(netloc), scheme |-> scheme, netloc |-> netloc,
     path |-> before(url, "?"), query |-> after(url, "?"), fragment |-> fragment]

\* urlsplit: the fragment is cut off at the first "#"
urlsplit_fragment(scheme, netloc, url) ==
    urlsplit_query(scheme, netloc, before(url, "#"), after(url, "#"))

\* urlsplit: "if url[:2] == '//'" the netloc runs up to the first of "/?#"
has_netloc(url) == prefix(url, 2) = <<"/", "/">>

urlsplit_netloc(scheme, url) ==
    urlsplit_fragment(scheme,
                      IF has_netloc(url) THEN SubSeq(url, 3, netloc_end(url) - 1)
                      ELSE <<>>,
                      IF has_netloc(url) THEN tail_from(url, netloc_end(url))
                      ELSE url)

\* urlsplit: the text before the first ":" at 1-based position i is a scheme
\* when it starts with a letter and consists of scheme characters
has_scheme(url, i) ==
    /\ i > 1
    /\ IsAlpha(url[1])
    /\ \A k \in 1..(i-1) : url[k] \in scheme_chars

urlsplit_scheme(url, i) ==
    urlsplit_netloc(IF has_scheme(url, i) THEN lower(SubSeq(url, 1, i - 1)) ELSE <<>>,
                    IF has_scheme(url, i) THEN tail_from(url, i + 1) ELSE url)

\* urlsplit: tab, CR and LF are removed from the url
remove_unsafe(url) == SelectSeq(url, LAMBDA c : c \notin {"\t", "\r", "\n"})

urlsplit_clean(url) == urlsplit_scheme(url, find(url, ":", 1))

\* urlsplit(u): [ok, scheme, netloc, path, query, fragment]
urlsplit(u) == urlsplit_clean(remove_unsafe(lstrip(u, {" "})))

\* parse_qsl(qs, keep_blank_values=True): the <<name, value>> pairs in order
parse_qsl_pair(nv) ==
    <<unquote(replace_char(nv[1], "+", " ")),
      IF Len(nv) = 2 THEN unquote(replace_char(nv[2], "+", " ")) ELSE <<>>>>

parse_qsl_fields(fields) ==
    [i \in 1..Len(fields) |-> parse_qsl_pair(split1(fields[i], "="))]

parse_qsl(qs) ==
    parse_qsl_fields(SelectSeq(IF qs = <<>> THEN <<>> ELSE split(qs, "&"),
                               LAMBDA nv : nv # <<>>))

\* urlencode(pairs, doseq=True) for str values
urlencode(pairs) ==
    join_with([i \in 1..Len(pairs) |->
                  quote_plus(pairs[i][1]) \o <<"=">> \o quote_plus(pairs[i][2])],
              "&")

\* urlunsplit((scheme, netloc, url, query, "")), in its three steps
urlunsplit_netloc(scheme, netloc, url) ==
    IF \/ netloc # <<>>
       \/ /\ scheme # <<>>
          /\ scheme \in uses_netloc
          /\ prefix(url, 2) # <<"/", "/">>
    THEN <<"/", "/">> \o netloc
         \o (IF url # <<>> /\ url[1] # "/" THEN <<"/">> ELSE <<>>) \o url
    ELSE url

urlunsplit_scheme(scheme, url) ==
    IF scheme # <<>> THEN scheme \o <<":">> \o url ELSE url

urlunsplit_query(url, query) ==
    IF query # <<>> THEN url \o <<"?">> \o query ELSE url

urlunsplit(scheme, netloc, path, query) ==
    urlunsplit_query(urlunsplit_scheme(scheme, urlunsplit_netloc(scheme, netloc, path)),
                     query)

COMMON_TRACKING_PARAMS ==
    { <<"u","t","m","_","s","o","u","r","c","e">>,
      <<"u","t","m","_","m","e","d","i","u","m">>,
      <<"u","t","m","_","c","a","m","p","a","i","g","n">>,
      <<"u","t","m","_","t","e","r","m">>,
      <<"u","t","m","_","c","o","n","t","e","n","t">>,
      <<"u","t","m","_","i","d">>,
      <<"g","c","l","i","d">>, <<"f","b","c","l","i","d">>,
      <<"m","c","_","c","i","d">>, <<"m","c","_","e","i","d">>,
      <<"i","g","s","h","i","d">>, <<"r","e","f">> }

\* mutant: one trailing slash is removed, not all of them
strip_trailing_slash_single(path) ==
    IF path # <<>> /\ path[Len(path)] = "/" /\ path # <<"/">>
    THEN SubSeq(path, 1, Len(path) - 1)
    ELSE path

\* "if path.endswith('/') and path != '/': path = path.rstrip('/')"
strip_trailing_slash(path) ==
    IF path # <<>> /\ path[Len(path)] = "/" /\ path # <<"/">>
    THEN rstrip(path, {"/"})
    ELSE path

\* mutant: the tracking parameters stay in the query
filter_query_unfiltered(query) == urlencode(parse_qsl(query))

\* the query without the pairs whose key is a tracking parameter, re-encoded
filter_query(query) ==
    urlencode(SelectSeq(parse_qsl(query),
                        LAMBDA kv : kv[1] \notin COMMON_TRACKING_PARAMS))

\* "return urlunsplit(...) or u"
or_else(r, u) == IF r # <<>> THEN r ELSE u

\* normalize_url once u is split; a ValueError of urlsplit gives u back
normalize_split(u, s) ==
    IF ~s.ok THEN u
    ELSE or_else(urlunsplit(s.scheme, lower(s.netloc), strip_trailing_slash(s.path),
                            filter_query(s.query)),
                 u)

\* normalize_url(u): the deduplication key of a URL
normalize_url(u) == normalize_split(u, urlsplit(u))

\* normalize_url is a function of its argument alone: the keys of the URLs the
\* documents are written with are computed once
DocumentUrls ==
    { <<"h","t","t","p",":","/","/","e","x",".","c","o","m","/","a">>,
      <<"h","t","t","p",":","/","/","E","X",".","c","o","m","/","a","/",
        "?","u","t","m","_","s","o","u","r","c","e","=","x">>,
      <<"h","t","t","p",":","/","/","e","x",".","c","o","m","/","b">>,
      <<>> }

NormalizedDocumentUrls == [u \in DocumentUrls |-> normalize_url(u)]

\* mutant: the raw href is the key
normalize_url_raw(u) == u

normalize_url_memo(u) ==
    IF u \in DocumentUrls THEN NormalizedDocumentUrls[u] ELSE normalize_url(u)

(***************************************************************************)
(* norm_folder_name                                                        *)
(***************************************************************************)
\* re.sub(r"\s+", " ", n): every run of whitespace becomes one space
RECURSIVE collapse_whitespace(_)
collapse_whitespace(n) ==
    IF n = <<>> THEN <<>>
    ELSE IF Head(n) \in Whitespace
         THEN <<" ">> \o collapse_whitespace(lstrip(n, Whitespace))
         ELSE <<Head(n)>> \o collapse_whitespace(Tail(n))

\* the characters of the literal "/|-:.Â·;" of the source; its two non-ASCII
\* characters are written "Acirc" and "middot"
FolderPunctuation == {"/", "|", "-", ":", ".", "Acirc", "middot", ";"}

norm_folder_name(name) ==
    LET n1 == replace_char(name, NBSP, " ")
        n2 == lower(strip(collapse_whitespace(n1), Whitespace))
    IN strip(n2, FolderPunctuation)

(***************************************************************************)
(* Bookmark, Folder and the NetscapeParser                                 *)
(***************************************************************************)
Bookmark(href, title, attrs) == [href |-> href, title |-> title, attrs |-> attrs]

Folder(name, attrs) == [name |-> name, attrs |-> attrs, children |-> <<>>]

\* a reference held in a children list or a bucket
BookmarkRef(id) == [kind |-> "Bookmark", id |-> id]
FolderRef(id) == [kind |-> "Folder", id |-> id]

\* the root Folder is the first object of the folder heap
RootId == 1

ROOT == <<"R","O","O","T">>

\* NetscapeParser.__init__
NetscapeParser ==
    [folders |-> <<Folder(ROOT, {})>>,
     bookmarks |-> <<>>,
     stack |-> <<RootId>>,
     pending_folder_title |-> <<>>,
     collect_text_for |-> "None",
     temp_attrs |-> {},
     text_buf |-> <<>>]

\* tag.upper() of the tags the tokenizer hands over (always lower case)
tag_upper(tag) ==
    CASE tag = "h3" -> "H3"
      [] tag = "a" -> "A"
      [] tag = "dl" -> "DL"
      [] tag = "dt" -> "DT"
      [] OTHER -> "P"

\* mutant: every child is appended to the root
append_child_to_root(folders, top, ref) ==
    [folders EXCEPT ![RootId].children = Append(@, ref)]

\* self.stack[-1].children.append(ref)
append_child(folders, top, ref) ==
    [folders EXCEPT ![top].children = Append(@, ref)]

\* mutant: the pending declaration is not cleared when its list opens
handle_starttag_keeps_pending(p, tag, attrs) ==
    LET t == tag_upper(tag) IN
    IF t = "H3" \/ t = "A"
    THEN [p EXCEPT !.collect_text_for = t, !.temp_attrs = attrs, !.text_buf = <<>>]
    ELSE IF t = "DL" /\ p.pending_folder_title # <<>>
    THEN LET decl == p.pending_folder_title[1]
             id == Len(p.folders) + 1
             top == p.stack[Len(p.stack)]
         IN [p EXCEPT !.folders = Append(append_child(p.folders, top, FolderRef(id)),
                                         Folder(decl.name, decl.attrs)),
                      !.stack = Append(@, id)]
    ELSE p

handle_starttag(p, tag, attrs) ==
    LET t == tag_upper(tag) IN
    IF t = "H3" \/ t = "A"
    THEN [p EXCEPT !.collect_text_for = t, !.temp_attrs = attrs, !.text_buf = <<>>]
    ELSE IF t = "DL" /\ p.pending_folder_title # <<>>
    THEN LET decl == p.pending_folder_title[1]
             id == Len(p.folders) + 1
             top == p.stack[Len(p.stack)]
         IN [p EXCEPT !.folders = Append(append_child(p.folders, top, FolderRef(id)),
                                         Folder(decl.name, decl.attrs)),
                      !.stack = Append(@, id),
                      !.pending_folder_title = <<>>]
    ELSE p

\* self._temp_attrs.get("HREF") or self._temp_attrs.get("href") or ""
href_of(attrs) ==
    LET a == dict_get(attrs, "HREF")
        b == dict_get(attrs, "href")
    IN IF a # <<>> /\ a[1] # <<>> THEN a[1]
       ELSE IF b # <<>> /\ b[1] # <<>> THEN b[1]
       ELSE <<>>

\* mutant: </DL> pops whatever is on the stack, the root too
handle_endtag_pops_root(p, tag) ==
    LET t == tag_upper(tag) IN
    IF t = "H3" /\ p.collect_text_for = "H3"
    THEN [p EXCEPT !.pending_folder_title =
                       <<[name |-> strip(join(p.text_buf), Whitespace),
                          attrs |-> p.temp_attrs]>>,
                   !.collect_text_for = "None",
                   !.text_buf = <<>>,
                   !.temp_attrs = {}]
    ELSE IF t = "A" /\ p.collect_text_for = "A"
    THEN LET bm == Bookmark(href_of(p.temp_attrs),
                            strip(join(p.text_buf), Whitespace),
                            p.temp_attrs)
             id == Len(p.bookmarks) + 1
             top == p.stack[Len(p.stack)]
         IN [p EXCEPT !.bookmarks = Append(@, bm),
                      !.folders = append_child(@, top, BookmarkRef(id)),
                      !.collect_text_for = "None",
                      !.text_buf = <<>>,
                      !.temp_attrs = {}]
    ELSE IF t = "DL" /\ Len(p.stack) > 0
    THEN [p EXCEPT !.stack = SubSeq(@, 1, Len(@) - 1)]
    ELSE p

handle_endtag(p, tag) ==
    LET t == tag_upper(tag) IN
    IF t = "H3" /\ p.collect_text_for = "H3"
    THEN [p EXCEPT !.pending_folder_title =
                       <<[name |-> strip(join(p.text_buf), Whitespace),
                          attrs |-> p.temp_attrs]>>,
                   !.collect_text_for = "None",
                   !.text_buf = <<>>,
                   !.temp_attrs = {}]
    ELSE IF t = "A" /\ p.collect_text_for = "A"
    THEN LET bm == Bookmark(href_of(p.temp_attrs),
                            strip(join(p.text_buf), Whitespace),
                            p.temp_attrs)
             id == Len(p.bookmarks) + 1
             top == p.stack[Len(p.stack)]
         IN [p EXCEPT !.bookmarks = Append(@, bm),
                      !.folders = append_child(@, top, BookmarkRef(id)),
                      !.collect_text_for = "None",
                      !.text_buf = <<>>,
                      !.temp_attrs = {}]
    ELSE IF t = "DL" /\ Len(p.stack) > 1
    THEN [p EXCEPT !.stack = SubSeq(@, 1, Len(@) - 1)]
    ELSE p

handle_data(p, data) ==
    IF p.collect_text_for \in {"H3", "A"}
    THEN [p EXCEPT !.text_buf = Append(@, data)]
    ELSE p

(***************************************************************************)
(* The prune engine: prune_and_dedupe                                      *)
(***************************************************************************)
\* mutant: the empty key is kept like any other
is_first_occurrence_any_norm(norm, seen) == norm \notin seen

\* mutant: the seen set is not consulted
is_first_occurrence_unseen(norm, seen) == norm # <<>>

\* "norm and norm not in seen"
is_first_occurrence(norm, seen) == norm # <<>> /\ norm \notin seen

\* mutant: a folder is kept whatever is left in it
keeps_folder_always(children) == TRUE

\* "pruned and pruned.children": a Folder object is always true
keeps_folder(children) == children # <<>>

\* the loop over folder.children from position i on, then the assignment
\* folder.children = new_children; the result is [folders, seen, stats]
RECURSIVE prune_loop(_, _, _, _, _, _, _)
prune_loop(folders, bookmarks, f, i, new_children, seen, stats) ==
    IF i > Len(folders[f].children)
    THEN [folders |-> [folders EXCEPT ![f].children = new_children],
          seen |-> seen, stats |-> stats]
    ELSE LET ch == folders[f].children[i] IN
         IF ch.kind = "Bookmark"
         THEN LET norm == normalize_url_memo(bookmarks[ch.id].href) IN
              IF is_first_occurrence(norm, seen)
              THEN prune_loop(folders, bookmarks, f, i + 1, Append(new_children, ch),
                              seen \cup {norm},
                              [stats EXCEPT !.urls_kept = @ + 1])
              ELSE prune_loop(folders, bookmarks, f, i + 1, new_children, seen,
                              [stats EXCEPT !.urls_removed = @ + 1])
         ELSE LET r == prune_loop(folders, bookmarks, ch.id, 1, <<>>, seen, stats) IN
              IF keeps_folder(r.folders[ch.id].children)
              THEN prune_loop(r.folders, bookmarks, f, i + 1, Append(new_children, ch),
                              r.seen, r.stats)
              ELSE prune_loop(r.folders, bookmarks, f, i + 1, new_children, r.seen,
                              [r.stats EXCEPT !.folders_pruned = @ + 1])

\* mutant: the root is counted as pruned when nothing is left in it
prune_and_dedupe_root_pruned(folders, bookmarks, folder, seen, stats) ==
    LET r == prune_loop(folders, bookmarks, folder, 1, <<>>, seen, stats) IN
    IF keeps_folder(r.folders[folder].children)
    THEN r
    ELSE [r EXCEPT !.stats.folders_pruned = @ + 1]

prune_and_dedupe(folders, bookmarks, folder, seen, stats) ==
    prune_loop(folders, bookmarks, folder, 1, <<>>, seen, stats)

(***************************************************************************)
(* The flatten engine: collect_flat_buckets, dedupe_bookmarks_globally     *)
(* A dict of buckets is the sequence of its entries in insertion order.    *)
(***************************************************************************)
unsorted_key == <<"_","_","u","n","s","o","r","t","e","d","_","_">>

Unsorted == <<"U","n","s","o","r","t","e","d">>

\* position of the bucket of a key, 0 when the key is not in the dict
bucket_index(buckets, key) ==
    IF \E i \in 1..Len(buckets) : buckets[i].key = key
    THEN CHOOSE i \in 1..Len(buckets) : buckets[i].key = key
    ELSE 0

\* the key add_to_bucket files a folder name under
bucket_key(name) ==
    LET key == norm_folder_name(name) IN
    IF key = <<>> THEN unsorted_key ELSE key

\* "if not b.get('h3_attrs'): b['h3_attrs'] = dict(h3_attrs or {})"
first_seen_attrs(old, h3_attrs) == IF old = {} THEN h3_attrs ELSE old

\* the Bookmark items of a children list, in order
bookmark_items(items) ==
    LET bs == SelectSeq(items, LAMBDA it : it.kind = "Bookmark") IN
    [i \in 1..Len(bs) |-> bs[i].id]

\* mutant: a new bucket is headed by its key, not by the folder's own name
add_to_bucket_key_named(buckets, folder_name, h3_attrs, items) ==
    LET name == IF folder_name = <<>> THEN <<>> ELSE folder_name[1]
        key == bucket_key(name)
        buckets1 == IF bucket_index(buckets, key) = 0
                    THEN Append(buckets,
                                [key |-> key,
                                 display_name |-> key,
                                 bookmarks |-> <<>>,
                                 h3_attrs |-> h3_attrs])
                    ELSE buckets
        b == bucket_index(buckets1, key)
    IN [buckets1 EXCEPT ![b].h3_attrs = first_seen_attrs(@, h3_attrs),
                        ![b].bookmarks = @ \o bookmark_items(items)]

\* add_to_bucket(folder_name, h3_attrs, items); folder_name is an Optional
add_to_bucket(buckets, folder_name, h3_attrs, items) ==
    LET name == IF folder_name = <<>> THEN <<>> ELSE folder_name[1]
        key == bucket_key(name)
        buckets1 == IF bucket_index(buckets, key) = 0
                    THEN Append(buckets,
                                [key |-> key,
                                 display_name |-> IF name # <<>> THEN name ELSE Unsorted,
                                 bookmarks |-> <<>>,
                                 h3_attrs |-> h3_attrs])
                    ELSE buckets
        b == bucket_index(buckets1, key)
    IN [buckets1 EXCEPT ![b].h3_attrs = first_seen_attrs(@, h3_attrs),
                        ![b].bookmarks = @ \o bookmark_items(items)]

\* walk(node, parent) and its loop over node.children from position i on
RECURSIVE walk_children(_, _, _, _)

\* mutant: the children are walked before the node's own bookmarks are filed
walk_postorder(folders, node, buckets) ==
    IF node # RootId
    THEN add_to_bucket(walk_children(folders, node, 1, buckets),
                       <<folders[node].name>>, folders[node].attrs,
                       folders[node].children)
    ELSE add_to_bucket(walk_children(folders, node, 1, buckets), <<>>, {},
                       folders[node].children)

walk(folders, node, buckets) ==
    LET buckets1 == IF node # RootId
                    THEN add_to_bucket(buckets, <<folders[node].name>>,
                                       folders[node].attrs, folders[node].children)
                    ELSE add_to_bucket(buckets, <<>>, {}, folders[node].children)
    IN walk_children(folders, node, 1, buckets1)

\* mutant: the walk does not descend into the subfolders
walk_children_none(folders, node, i, buckets) == buckets

walk_children(folders, node, i, buckets) ==
    IF i > Len(folders[node].children) THEN buckets
    ELSE LET ch == folders[node].children[i] IN
         IF ch.kind = "Folder"
         THEN walk_children(folders, node, i + 1, walk(folders, ch.id, buckets))
         ELSE walk_children(folders, node, i + 1, buckets)

collect_flat_buckets(folders) ==
    walk(folders, RootId,
         <<[key |-> unsorted_key, display_name |-> Unsorted,
            bookmarks |-> <<>>, h3_attrs |-> {}]>>)

\* the inner loop of dedupe_bookmarks_globally over b["bookmarks"];
\* the result is [new_list, seen, stats]
RECURSIVE dedupe_list(_, _, _, _, _, _)
dedupe_list(bookmarks, list, i, new_list, seen, stats) ==
    IF i > Len(list)
    THEN [new_list |-> new_list, seen |-> seen, stats |-> stats]
    ELSE LET norm == normalize_url_memo(bookmarks[list[i]].href) IN
         IF is_first_occurrence(norm, seen)
         THEN dedupe_list(bookmarks, list, i + 1, Append(new_list, list[i]),
                          seen \cup {norm}, [stats EXCEPT !.urls_kept = @ + 1])
         ELSE dedupe_list(bookmarks, list, i + 1, new_list, seen,
                          [stats EXCEPT !.urls_removed = @ + 1])

\* mutant: every bucket is deduplicated against a seen set of its own
RECURSIVE dedupe_buckets_seen_per_bucket(_, _, _, _, _)
dedupe_buckets_seen_per_bucket(bookmarks, buckets, k, seen, stats) ==
    IF k > Len(buckets)
    THEN [buckets |-> buckets, seen |-> seen, stats |-> stats]
    ELSE LET r == dedupe_list(bookmarks, buckets[k].bookmarks, 1, <<>>, {}, stats)
         IN dedupe_buckets_seen_per_bucket(bookmarks,
                           [buckets EXCEPT ![k].bookmarks = r.new_list],
                           k + 1, seen \cup r.seen,
                           IF r.new_list # <<>>
                           THEN [r.stats EXCEPT !.folders_total = @ + 1]
                           ELSE r.stats)

\* the outer loop over buckets.items() from position k on;
\* the result is [buckets, seen, stats]
RECURSIVE dedupe_buckets(_, _, _, _, _)
dedupe_buckets(bookmarks, buckets, k, seen, stats) ==
    IF k > Len(buckets)
    THEN [buckets |-> buckets, seen |-> seen, stats |-> stats]
    ELSE LET r == dedupe_list(bookmarks, buckets[k].bookmarks, 1, <<>>, seen, stats)
         IN dedupe_buckets(bookmarks,
                           [buckets EXCEPT ![k].bookmarks = r.new_list],
                           k + 1, r.seen,
                           IF r.new_list # <<>>
                           THEN [r.stats EXCEPT !.folders_total = @ + 1]
                           ELSE r.stats)

dedupe_bookmarks_globally(bookmarks, buckets) ==
    dedupe_buckets(bookmarks, buckets, 1, {},
                   [urls_kept |-> 0, urls_removed |-> 0, folders_total |-> 0])

(***************************************************************************)
(* dump_flat_html: the lines of the flattened file.  A line is a record:   *)
(* [tag, attrs, text] with attrs the sequence of NAME="value" pairs.       *)
(***************************************************************************)
escape_char(c) ==
    CASE c = "&" -> <<"&","a","m","p",";">>
      [] c = "<" -> <<"&","l","t",";">>
      [] c = ">" -> <<"&","g","t",";">>
      [] c = "\"" -> <<"&","q","u","o","t",";">>
      [] OTHER -> <<c>>

escape_html(t) == join([i \in 1..Len(t) |-> escape_char(t[i])])

Untitled == <<"U","n","t","i","t","l","e","d">>

\* the attribute names dump_flat_html keeps, each with its k.lower()
H3_KEPT_ATTRS ==
    << <<"ADD_DATE", "add_date">>, <<"LAST_MODIFIED", "last_modified">>,
       <<"PERSONAL_TOOLBAR_FOLDER", "personal_toolbar_folder">> >>
A_KEPT_ATTRS ==
    << <<"ADD_DATE", "add_date">>, <<"ICON", "icon">>, <<"ICON_URI", "icon_uri">>,
       <<"LAST_MODIFIED", "last_modified">> >>

\* "attrs.get(k) or attrs.get(k.lower())", an Optional
get_either(attrs, k) ==
    IF dict_get(attrs, k[1]) # <<>> /\ dict_get(attrs, k[1])[1] # <<>>
    THEN dict_get(attrs, k[1])
    ELSE dict_get(attrs, k[2])

\* the NAME="value" pairs of the kept attributes that are present, in order
RECURSIVE kept_attrs(_, _)
kept_attrs(attrs, names) ==
    IF names = <<>> THEN <<>>
    ELSE (IF get_either(attrs, Head(names)) # <<>>
          THEN << <<Head(names)[1], escape_html(get_either(attrs, Head(names))[1])>> >>
          ELSE <<>>)
         \o kept_attrs(attrs, Tail(names))

\* "bm.title or bm.href or 'Untitled'"
title_of(bm) ==
    IF bm.title # <<>> THEN bm.title
    ELSE IF bm.href # <<>> THEN bm.href
    ELSE Untitled

\* the line  <DT><A HREF=".." ..>title</A>
anchor_line(bm) ==
    [tag |-> "A",
     attrs |-> << <<"HREF", escape_html(bm.href)>> >> \o kept_attrs(bm.attrs, A_KEPT_ATTRS),
     text |-> escape_html(title_of(bm))]

\* the lines of one bucket: heading, list start, anchors, list end
bucket_lines(bookmarks, b) ==
    << [tag |-> "H3",
        attrs |-> kept_attrs(b.h3_attrs, H3_KEPT_ATTRS),
        text |-> escape_html(IF b.display_name # <<>> THEN b.display_name ELSE Untitled)],
       [tag |-> "DL", attrs |-> <<>>, text |-> <<>>] >>
    \o [i \in 1..Len(b.bookmarks) |-> anchor_line(bookmarks[b.bookmarks[i]])]
    \o << [tag |-> "/DL", attrs |-> <<>>, text |-> <<>>] >>

\* mutant: the empty buckets are written as well
with_bookmarks_or_without(bucketSeq) == bucketSeq

\* "if not b['bookmarks']: continue"
with_bookmarks(bucketSeq) == SelectSeq(bucketSeq, LAMBDA b : b.bookmarks # <<>>)

dump_flat_html(bookmarks, bucketSeq) ==
    join([i \in 1..Len(with_bookmarks(bucketSeq)) |->
            bucket_lines(bookmarks, with_bookmarks(bucketSeq)[i])])

(***************************************************************************)
(* The input document: the texts and attributes its elements are drawn     *)
(* from.                                                                   *)
(***************************************************************************)
UrlA == <<"h","t","t","p",":","/","/","e","x",".","c","o","m","/","a">>
UrlATracked == <<"h","t","t","p",":","/","/","E","X",".","c","o","m","/","a","/",
                 "?","u","t","m","_","s","o","u","r","c","e","=","x">>
UrlB == <<"h","t","t","p",":","/","/","e","x",".","c","o","m","/","b">>

\* the attribute lists of <A ...>: with an href, or with none
NoHref == {}
Href(u) == {<<"href", u>>}

Name_A == <<"A">>
Name_B == <<"B">>
Name_Work == <<"W","o","r","k">>
Name_WORK_ == <<"W","O","R","K"," ">>
Name_Personal == <<"P","e","r","s","o","n","a","l">>
Name_Dash == <<"-">>

\* The documents fed to the parser are written with one of these vocabularies:
\* the attribute lists of its <A> elements, the attribute lists of its <H3>
\* elements and the texts of its <H3> elements (<<>>: a heading with no text).
Vocabularies ==
    { [anchors |-> {Href(UrlA), Href(UrlATracked), Href(UrlB)},
       heading_attrs |-> {{}},
       heading_texts |-> {Name_A, Name_B}],
      [anchors |-> {Href(UrlA), NoHref},
       heading_attrs |-> {{}},
       heading_texts |-> {Name_A}],
      [anchors |-> {Href(UrlA), Href(UrlB)},
       heading_attrs |-> {{}},
       heading_texts |-> {Name_Work, Name_WORK_}],
      [anchors |-> {Href(UrlA)},
       heading_attrs |-> {{}},
       heading_texts |-> {Name_Work, Name_Personal}],
      [anchors |-> {Href(UrlA), Href(UrlB)},
       heading_attrs |-> {{}},
       heading_texts |-> {Name_Dash, Unsorted}],
      [anchors |-> {Href(UrlA), Href(UrlB)},
       heading_attrs |-> {{}},
       heading_texts |-> {<<>>, unsorted_key}],
      [anchors |-> {Href(UrlA)},
       heading_attrs |-> {{}, {<<"add_date", <<"1">>>>}, {<<"add_date", <<"2">>>>}},
       heading_texts |-> {Name_Work}] }

\* the text of every <A> element
AnchorText == <<"t">>

(***************************************************************************)
(* State                                                                   *)
(***************************************************************************)
VARIABLES
    vocabulary, \* the vocabulary the input document is written with
    parser,   \* the NetscapeParser object, with the tree it builds
    pc,       \* "parse" while the document is fed, then the engine that ran
    input,    \* the folder heap as it was when the engine started
    seen,     \* the engine's set of normalized URLs
    stats,    \* the engine's statistics dict (<<>> before an engine ran)
    buckets,  \* the flatten engine's dict of buckets
    call,     \* a call of normalize_url or norm_folder_name on its own:
              \* the arguments and the values returned so far
    feed      \* the tokenizer's events handed to the parser one by one:
              \* the last event and what the event stream did so far

vars == <<vocabulary, parser, pc, input, seen, stats, buckets, call, feed>>

\* no function is called on its own, no single event is fed
NoCall == [fn |-> "none"]
NoFeed == [event |-> "none"]

Init ==
    /\ vocabulary \in Vocabularies
    /\ parser = NetscapeParser
    /\ pc = "parse"
    /\ input = <<>>
    /\ seen = {}
    /\ stats = <<>>
    /\ buckets = <<>>
    /\ call = NoCall
    /\ feed = NoFeed

feed_data(p, text) == IF text = <<>> THEN p ELSE handle_data(p, text)

\* parser.feed of  <DT><H3 attrs>text</H3> <DL><p>
feed_heading(attrs, text) ==
    /\ pc = "parse"
    /\ Len(parser.folders) - 1 < MaxFolders
    /\ Len(parser.folders) - 1 + Len(parser.bookmarks) < MaxNodes
    /\ parser' = handle_starttag(
                   handle_starttag(
                     handle_endtag(
                       feed_data(
                         handle_starttag(handle_starttag(parser, "dt", {}), "h3", attrs),
                         text),
                       "h3"),
                     "dl", {}),
                   "p", {})
    /\ UNCHANGED <<vocabulary, pc, input, seen, stats, buckets, call, feed>>

\* parser.feed of  <DT><A attrs>text</A>
feed_anchor(attrs, text) ==
    /\ pc = "parse"
    /\ Len(parser.bookmarks) < MaxBookmarks
    /\ Len(parser.folders) - 1 + Len(parser.bookmarks) < MaxNodes
    /\ parser' = handle_endtag(
                   feed_data(
                     handle_starttag(handle_starttag(parser, "dt", {}), "a", attrs),
                     text),
                   "a")
    /\ UNCHANGED <<vocabulary, pc, input, seen, stats, buckets, call, feed>>

\* parser.feed of  </DL><p>
feed_list_end ==
    /\ pc = "parse"
    /\ parser' = handle_starttag(handle_endtag(parser, "dl"), "p", {})
    /\ UNCHANGED <<vocabulary, pc, input, seen, stats, buckets, call, feed>>

\* main() of dedupe_chromium_bookmarks.py once the document is fed
main_prune ==
    /\ pc = "parse"
    /\ LET r == prune_and_dedupe(parser.folders, parser.bookmarks, RootId, {},
                                 [urls_kept |-> 0, urls_removed |-> 0,
                                  folders_pruned |-> 0])
       IN /\ parser' = [parser EXCEPT !.folders = r.folders]
          /\ seen' = r.seen
          /\ stats' = r.stats
    /\ input' = parser.folders
    /\ pc' = "pruned"
    /\ UNCHANGED <<vocabulary, buckets, call, feed>>

\* main() of dedupe_merge_netscape_bookmarks.py once the document is fed
main_flatten ==
    /\ pc = "parse"
    /\ LET r == dedupe_bookmarks_globally(parser.bookmarks,
                                          collect_flat_buckets(parser.folders))
       IN /\ buckets' = r.buckets
          /\ seen' = r.seen
          /\ stats' = r.stats
    /\ input' = parser.folders
    /\ pc' = "flat"
    /\ UNCHANGED <<vocabulary, parser, call, feed>>

Next ==
    \/ \E attrs \in vocabulary.heading_attrs, text \in vocabulary.heading_texts :
          feed_heading(attrs, text)
    \/ \E attrs \in vocabulary.anchors : feed_anchor(attrs, AnchorText)
    \/ feed_list_end
    \/ main_prune
    \/ main_flatten

Spec == Init /\ [][Next]_vars

(***************************************************************************)
(* Reading trees and outputs                                               *)
(***************************************************************************)
\* the bookmarks below folder f from child position i on, in document order
RECURSIVE DocOrderFrom(_, _, _)
DocOrderFrom(folders, f, i) ==
    IF i > Len(folders[f].children) THEN <<>>
    ELSE LET ch == folders[f].children[i] IN
         (IF ch.kind = "Bookmark" THEN <<ch.id>> ELSE DocOrderFrom(folders, ch.id, 1))
         \o DocOrderFrom(folders, f, i + 1)

\* every bookmark of the tree, in document order
DocOrder(folders) == DocOrderFrom(folders, RootId, 1)

\* the folders below folder f from child position i on, in pre-order
RECURSIVE FolderOrderFrom(_, _, _)
FolderOrderFrom(folders, f, i) ==
    IF i > Len(folders[f].children) THEN <<>>
    ELSE LET ch == folders[f].children[i] IN
         (IF ch.kind = "Folder"
          THEN <<ch.id>> \o FolderOrderFrom(folders, ch.id, 1) ELSE <<>>)
         \o FolderOrderFrom(folders, f, i + 1)

\* every folder of the tree but the root, in pre-order
FolderOrder(folders) == FolderOrderFrom(folders, RootId, 1)

\* the bookmarks that are children of folder f itself
DirectBookmarks(folders, f) ==
    { folders[f].children[i].id :
        i \in { j \in 1..Len(folders[f].children) :
                  folders[f].children[j].kind = "Bookmark" } }

\* the bookmarks in the subtree of folder f
SubtreeBookmarks(folders, f) == Range(DocOrderFrom(folders, f, 1))

\* the position of x in a sequence without repetition
IndexOf(seq, x) == CHOOSE i \in 1..Len(seq) : seq[i] = x

\* the deduplication key of bookmark b, by the specification of normalize_url
KeyOf(b) == NormalizedDocumentUrls[parser.bookmarks[b].href]

InputBookmarks == DocOrder(input)

\* what the prune tool writes: the tree below the root after prune_and_dedupe
PrunedBookmarks == DocOrder(parser.folders)
PrunedFolders == FolderOrder(parser.folders)

\* what the flatten tool writes: dump_flat_html skips the empty buckets
EmittedBuckets == SelectSeq(buckets, LAMBDA b : b.bookmarks # <<>>)
FlatBookmarks == join([k \in 1..Len(buckets) |-> buckets[k].bookmarks])

NoDuplicateKeys(seq) ==
    \A i, j \in 1..Len(seq) : i # j => KeyOf(seq[i]) # KeyOf(seq[j])

\* the first bookmark of the input, in document order, with the key k
FirstInDocument(k) ==
    InputBookmarks[CHOOSE i \in 1..Len(InputBookmarks) :
                      /\ KeyOf(InputBookmarks[i]) = k
                      /\ \A j \in 1..(i-1) : KeyOf(InputBookmarks[j]) # k]

InputKeys == { KeyOf(InputBookmarks[i]) : i \in 1..Len(InputBookmarks) } \ {<<>>}

(***************************************************************************)
(* C1: after either engine has run from an empty seen set, no two          *)
(* bookmarks of the output, in whatever folders or buckets, have the same  *)
(* normalize_url key.                                                      *)
(***************************************************************************)
C1_NoDuplicateInOutput ==
    /\ pc = "pruned" => NoDuplicateKeys(PrunedBookmarks)
    /\ pc = "flat" => NoDuplicateKeys(FlatBookmarks)

\* the flatten engine ran on a document that holds one URL twice, in two
\* spellings and in two different folders, and a second URL
C1_Witness ==
    /\ pc = "flat"
    /\ \E a, b, c \in Range(InputBookmarks) :
          /\ KeyOf(a) = KeyOf(b)
          /\ parser.bookmarks[a].href # parser.bookmarks[b].href
          /\ KeyOf(c) # KeyOf(a)
          /\ \E f, g \in 1..Len(input) :
                f # g /\ a \in DirectBookmarks(input, f) /\ b \in DirectBookmarks(input, g)
    /\ Len(FlatBookmarks) = 2

(***************************************************************************)
(* C2: prune engine, first occurrence wins.  For every non-empty key that  *)
(* occurs in the input tree the output of prune_and_dedupe holds exactly   *)
(* one bookmark with that key, and it is the first bookmark with that key  *)
(* in document order; the Bookmark object itself (title, attributes) is    *)
(* what the output holds.                                                  *)
(***************************************************************************)
C2_PruneFirstOccurrenceWins ==
    pc = "pruned" =>
        \A k \in InputKeys :
            /\ Cardinality({ i \in 1..Len(PrunedBookmarks) :
                               KeyOf(PrunedBookmarks[i]) = k }) = 1
            /\ FirstInDocument(k) \in Range(PrunedBookmarks)

\* the prune engine ran on a document whose first occurrence of a URL lies in
\* a nested folder and whose later occurrence, spelled differently, lies
\* directly under the root
C2_Witness ==
    /\ pc = "pruned"
    /\ \E a, b \in Range(InputBookmarks) :
          /\ KeyOf(a) = KeyOf(b) /\ KeyOf(a) # <<>>
          /\ parser.bookmarks[a].href # parser.bookmarks[b].href
          /\ IndexOf(InputBookmarks, a) < IndexOf(InputBookmarks, b)
          /\ b \in DirectBookmarks(input, RootId)
          /\ a \notin DirectBookmarks(input, RootId)
          /\ a \in Range(PrunedBookmarks)
          /\ b \notin Range(PrunedBookmarks)

(***************************************************************************)
(* Where the flatten engine files a bookmark                               *)
(***************************************************************************)
\* the folder of the input tree that bookmark b is a child of
ParentOf(b) == CHOOSE f \in 1..Len(input) : b \in DirectBookmarks(input, f)

\* the key of the bucket that takes the bookmarks of b's folder
HomeKey(b) ==
    IF ParentOf(b) = RootId THEN unsorted_key ELSE bucket_key(input[ParentOf(b)].name)

\* the key of the bucket that holds b after the engine ran
BucketKeysOf(b) ==
    { buckets[k].key : k \in { j \in 1..Len(buckets) : b \in Range(buckets[j].bookmarks) } }

\* the folders in the order the walk visits them: the root, then pre-order
WalkOrder == <<RootId>> \o FolderOrder(input)

\* when the bucket of a key is discovered: the reserved bucket exists before
\* the walk, any other with the first folder of that key
DiscoveryRank(key) ==
    IF key = unsorted_key THEN 0
    ELSE CHOOSE i \in 2..Len(WalkOrder) :
            /\ bucket_key(input[WalkOrder[i]].name) = key
            /\ \A j \in 2..(i-1) : bucket_key(input[WalkOrder[j]].name) # key

\* the position of bookmark b among the children of its folder
ChildPosition(b) ==
    CHOOSE i \in 1..Len(input[ParentOf(b)].children) :
        input[ParentOf(b)].children[i] = BookmarkRef(b)

\* bucket order: by discovery of the bucket, then by the walk's visit of the
\* folder, then by position in the folder
BucketOrderBefore(a, b) ==
    \/ DiscoveryRank(HomeKey(a)) < DiscoveryRank(HomeKey(b))
    \/ /\ DiscoveryRank(HomeKey(a)) = DiscoveryRank(HomeKey(b))
       /\ \/ IndexOf(WalkOrder, ParentOf(a)) < IndexOf(WalkOrder, ParentOf(b))
          \/ /\ ParentOf(a) = ParentOf(b)
             /\ ChildPosition(a) < ChildPosition(b)

\* the first bookmark of the input, in bucket order, with the key k
FirstInBucketOrder(k) ==
    CHOOSE a \in Range(InputBookmarks) :
        /\ KeyOf(a) = k
        /\ \A b \in Range(InputBookmarks) :
              (b # a /\ KeyOf(b) = k) => BucketOrderBefore(a, b)

\* the bookmarks of the flatten output that have the key k
FlatWithKey(k) == { b \in Range(FlatBookmarks) : KeyOf(b) = k }

(***************************************************************************)
(* C3, as claimed: flatten engine, first occurrence wins.  Of the          *)
(* bookmarks with one normalized URL the flatten output holds the one that *)
(* comes first in document order, in the bucket of its folder, and none of *)
(* the later ones.                                                         *)
(***************************************************************************)
C3_FlattenDocumentOrderWins ==
    pc = "flat" =>
        \A k \in InputKeys :
            /\ FlatWithKey(k) = {FirstInDocument(k)}
            /\ BucketKeysOf(FirstInDocument(k)) = {HomeKey(FirstInDocument(k))}

(***************************************************************************)
(* C3, amended: of the bookmarks with one normalized URL the flatten       *)
(* output holds the one that comes first in bucket order (buckets in the   *)
(* order the walk discovers them, the reserved Unsorted bucket first; in a *)
(* bucket the folders in walk order; in a folder document order), in the   *)
(* bucket of its folder, and none of the others.                           *)
(***************************************************************************)
C3_FlattenBucketOrderWins ==
    pc = "flat" =>
        \A k \in InputKeys :
            /\ FlatWithKey(k) = {FirstInBucketOrder(k)}
            /\ BucketKeysOf(FirstInBucketOrder(k)) = {HomeKey(FirstInBucketOrder(k))}

\* the flatten engine ran on a document where the first occurrence of a URL
\* in document order is not the first in bucket order, and the latter survived
C3_Witness ==
    /\ pc = "flat"
    /\ \E k \in InputKeys :
          /\ FirstInDocument(k) # FirstInBucketOrder(k)
          /\ FirstInBucketOrder(k) \in Range(FlatBookmarks)
          /\ FirstInDocument(k) \notin Range(FlatBookmarks)

(***************************************************************************)
(* C4: structural pruning.  In the tree prune_and_dedupe returns every     *)
(* folder but the root has a child, and a folder of the input is in the    *)
(* output if and only if its subtree holds a kept bookmark.                *)
(***************************************************************************)
C4_StructuralPruning ==
    pc = "pruned" =>
        /\ \A f \in Range(PrunedFolders) : parser.folders[f].children # <<>>
        /\ \A f \in Range(FolderOrder(input)) :
              f \in Range(PrunedFolders)
              <=> SubtreeBookmarks(input, f) \cap Range(PrunedBookmarks) # {}

\* the prune engine ran on a document with a folder g inside a folder f, where
\* all bookmarks of g were removed and g is gone, while f is kept
C4_Witness ==
    /\ pc = "pruned"
    /\ \E f, g \in Range(FolderOrder(input)) :
          /\ g \in Range(FolderOrderFrom(input, f, 1))
          /\ SubtreeBookmarks(input, g) # {}
          /\ g \notin Range(PrunedFolders)
          /\ f \in Range(PrunedFolders)

(***************************************************************************)
(* Folders by normalized name                                              *)
(***************************************************************************)
\* the buckets as collect_flat_buckets returns them, before the dedupe
CollectedBuckets == collect_flat_buckets(input)

\* the folders of the input, the root apart, whose normalized name is k
FoldersNamed(k) ==
    { f \in Range(FolderOrder(input)) : norm_folder_name(input[f].name) = k }

\* the non-empty normalized names of the input's folders
FolderKeys ==
    { norm_folder_name(input[f].name) : f \in Range(FolderOrder(input)) } \ {<<>>}

\* the folder with the normalized name k that the walk visits first
FirstFolderNamed(k) ==
    CHOOSE f \in FoldersNamed(k) :
        \A g \in FoldersNamed(k) : IndexOf(WalkOrder, f) <= IndexOf(WalkOrder, g)

\* the direct bookmarks of all folders with the normalized name k
BookmarksOfFoldersNamed(k) ==
    UNION { DirectBookmarks(input, f) : f \in FoldersNamed(k) }

\* the positions of the buckets that hold a bookmark of the set bs
BucketsHolding(bucketSeq, bs) ==
    { i \in 1..Len(bucketSeq) : Range(bucketSeq[i].bookmarks) \cap bs # {} }

(***************************************************************************)
(* C5: flatten merge.  All folders with the same non-empty normalized name *)
(* put their direct bookmarks into one single bucket; the output holds at  *)
(* most one folder per normalized name; and the output folder that takes   *)
(* the folders of a normalized name is headed by the original name of the  *)
(* first of them the walk discovered.                                      *)
(***************************************************************************)
C5_FlattenMerge ==
    pc = "flat" =>
        /\ \A k \in FolderKeys :
              /\ Cardinality(BucketsHolding(CollectedBuckets,
                                            BookmarksOfFoldersNamed(k))) <= 1
              /\ \A b \in BookmarksOfFoldersNamed(k) :
                    BucketsHolding(CollectedBuckets, {b}) # {}
        /\ \A i, j \in 1..Len(EmittedBuckets) :
              i # j => norm_folder_name(EmittedBuckets[i].display_name)
                       # norm_folder_name(EmittedBuckets[j].display_name)
        /\ \A k \in FolderKeys :
              \A i \in BucketsHolding(buckets, BookmarksOfFoldersNamed(k)) :
                  buckets[i].display_name = input[FirstFolderNamed(k)].name

(***************************************************************************)
(* A URL filed once under "Personal" and again under a later "Work"        *)
(***************************************************************************)
\* the bookmarks of the input that have the key k
InputWithKey(k) == { b \in Range(InputBookmarks) : KeyOf(b) = k }

\* bookmark a lies directly in a folder named "Personal", bookmark b with the
\* same URL directly in a folder named "Work" that the walk meets later, and
\* the URL occurs nowhere else
OnceInPersonalAgainInWork(a, b) ==
    /\ ParentOf(a) # RootId /\ input[ParentOf(a)].name = Name_Personal
    /\ ParentOf(b) # RootId /\ input[ParentOf(b)].name = Name_Work
    /\ IndexOf(WalkOrder, ParentOf(a)) < IndexOf(WalkOrder, ParentOf(b))
    /\ KeyOf(a) # <<>>
    /\ InputWithKey(KeyOf(a)) = {a, b}

\* the URL is left in the Personal bucket only, as the bookmark a
SurvivesOnlyInPersonal(a) ==
    /\ FlatWithKey(KeyOf(a)) = {a}
    /\ BucketKeysOf(a) = {bucket_key(Name_Personal)}
    /\ buckets[bucket_index(buckets, bucket_key(Name_Personal))].display_name
       = Name_Personal

(***************************************************************************)
(* C6, as claimed: flatten cross-folder dedupe.  Whenever a URL lies once  *)
(* in a folder named "Personal" and again in a folder named "Work" that is *)
(* met later in document order, the URL survives in the "Personal" output  *)
(* folder only, whatever other folders the tree holds.                     *)
(***************************************************************************)
C6_PersonalBeforeWork ==
    pc = "flat" =>
        \A a, b \in Range(InputBookmarks) :
            OnceInPersonalAgainInWork(a, b) => SurvivesOnlyInPersonal(a)

(***************************************************************************)
(* C6, amended: the same, provided no folder whose name normalizes like    *)
(* "Work" is met before the first folder whose name normalizes like        *)
(* "Personal".                                                             *)
(***************************************************************************)
C6_PersonalBucketBeforeWorkBucket ==
    pc = "flat" =>
        \A a, b \in Range(InputBookmarks) :
            ( /\ OnceInPersonalAgainInWork(a, b)
              /\ DiscoveryRank(bucket_key(Name_Personal))
                 < DiscoveryRank(bucket_key(Name_Work)) )
            => SurvivesOnlyInPersonal(a)

\* the flatten engine ran on a tree of three folders where the URL lies in a
\* Personal folder and in a later Work folder, the Personal bucket being the
\* older one; the Work bucket lost the URL and is empty
C6_Witness ==
    /\ pc = "flat"
    /\ Len(FolderOrder(input)) = 3
    /\ \E a, b \in Range(InputBookmarks) :
          /\ OnceInPersonalAgainInWork(a, b)
          /\ DiscoveryRank(bucket_key(Name_Personal))
             < DiscoveryRank(bucket_key(Name_Work))
          /\ a \in Range(FlatBookmarks)
          /\ b \notin Range(FlatBookmarks)
    /\ stats.urls_removed = 1

(***************************************************************************)
(* The scenario tree  A > [bm1, B > [bm1-dup, bm2]]                        *)
(***************************************************************************)
\* the input tree is ROOT > [A > [bm1, B > [dup, bm2]]], where dup has the
\* normalized URL of bm1 and bm2 another one
IsScenario(A, B, bm1, dup, bm2) ==
    /\ input[RootId].children = <<FolderRef(A)>>
    /\ input[A].name = Name_A
    /\ input[A].children = <<BookmarkRef(bm1), FolderRef(B)>>
    /\ input[B].name = Name_B
    /\ input[B].children = <<BookmarkRef(dup), BookmarkRef(bm2)>>
    /\ KeyOf(bm1) # <<>>
    /\ KeyOf(dup) = KeyOf(bm1)
    /\ KeyOf(bm2) \notin {<<>>, KeyOf(bm1)}

\* the output folders of the flatten tool: heading and bookmarks
FlatOutput ==
    [i \in 1..Len(EmittedBuckets) |->
        <<EmittedBuckets[i].display_name, EmittedBuckets[i].bookmarks>>]

(***************************************************************************)
(* C7, as claimed: flatten scenario.  For A > [bm1, B > [bm1-dup, bm2]]    *)
(* the flatten engine produces exactly one output folder, "B", holding     *)
(* exactly bm2, with kept=1, removed=1 and folders kept=1.                 *)
(***************************************************************************)
C7_ScenarioOneFolderB ==
    pc = "flat" =>
        \A A, B \in 1..Len(input) : \A bm1, dup, bm2 \in 1..Len(parser.bookmarks) :
            IsScenario(A, B, bm1, dup, bm2) =>
                /\ FlatOutput = << <<Name_B, <<bm2>>>> >>
                /\ stats = [urls_kept |-> 1, urls_removed |-> 1, folders_total |-> 1]

(***************************************************************************)
(* C7, amended: for A > [bm1, B > [bm1-dup, bm2]] the flatten engine       *)
(* produces two output folders, "A" holding bm1 and then "B" holding bm2,  *)
(* with kept=2, removed=1 and folders kept=2.                              *)
(***************************************************************************)
C7_ScenarioFoldersAAndB ==
    pc = "flat" =>
        \A A, B \in 1..Len(input) : \A bm1, dup, bm2 \in 1..Len(parser.bookmarks) :
            IsScenario(A, B, bm1, dup, bm2) =>
                /\ FlatOutput = << <<Name_A, <<bm1>>>>, <<Name_B, <<bm2>>>> >>
                /\ stats = [urls_kept |-> 2, urls_removed |-> 1, folders_total |-> 2]

\* the flatten engine ran on the scenario tree, bm1-dup being the URL of bm1
\* with a tracking parameter
C7_Witness ==
    /\ pc = "flat"
    /\ \E A, B \in 1..Len(input) : \E bm1, dup, bm2 \in 1..Len(parser.bookmarks) :
          /\ IsScenario(A, B, bm1, dup, bm2)
          /\ parser.bookmarks[bm1].href = UrlA
          /\ parser.bookmarks[dup].href = UrlATracked
    /\ stats.urls_removed = 1

(***************************************************************************)
(* C8: prune statistics.  After prune_and_dedupe on a tree, with zeroed    *)
(* statistics, urls_kept is the number of bookmarks of the output tree,    *)
(* urls_kept + urls_removed the number of bookmarks of the input tree,     *)
(* and folders_pruned the number of input folders less the number of       *)
(* output folders (the root apart); A > [bm1, B > [bm1-dup, bm2]] becomes  *)
(* A > [bm1, B > [bm2]] with kept=2, removed=1, folders_pruned=0.          *)
(***************************************************************************)
C8_PruneStatistics ==
    pc = "pruned" =>
        /\ stats.urls_kept = Len(PrunedBookmarks)
        /\ stats.urls_kept + stats.urls_removed = Len(InputBookmarks)
        /\ stats.folders_pruned = Len(FolderOrder(input)) - Len(PrunedFolders)
        /\ \A A, B \in 1..Len(input) : \A bm1, dup, bm2 \in 1..Len(parser.bookmarks) :
              IsScenario(A, B, bm1, dup, bm2) =>
                  /\ parser.folders[RootId].children = <<FolderRef(A)>>
                  /\ parser.folders[A].children = <<BookmarkRef(bm1), FolderRef(B)>>
                  /\ parser.folders[B].children = <<BookmarkRef(bm2)>>
                  /\ stats = [urls_kept |-> 2, urls_removed |-> 1, folders_pruned |-> 0]

\* the prune engine ran on a tree where it removed a bookmark and pruned a
\* folder inside a folder that it pruned as well
C8_Witness ==
    /\ pc = "pruned"
    /\ stats.urls_removed >= 1
    /\ stats.folders_pruned = 2
    /\ stats.urls_kept >= 1
    /\ \E f, g \in Range(FolderOrder(input)) :
          /\ g \in Range(FolderOrderFrom(input, f, 1))
          /\ f \notin Range(PrunedFolders)

\* the prune engine ran on the scenario tree
C8_ScenarioWitness ==
    /\ pc = "pruned"
    /\ \E A, B \in 1..Len(input) : \E bm1, dup, bm2 \in 1..Len(parser.bookmarks) :
          IsScenario(A, B, bm1, dup, bm2)

(***************************************************************************)
(* The Unsorted bucket                                                     *)
(***************************************************************************)
\* the bookmarks directly under the root, those of the folders whose name
\* normalizes to empty and those of the folders named "Unsorted"
UnsortedBookmarks ==
    { b \in Range(InputBookmarks) :
        \/ ParentOf(b) = RootId
        \/ norm_folder_name(input[ParentOf(b)].name) = <<>>
        \/ input[ParentOf(b)].name = Unsorted }

\* the positions of the output folders headed "Unsorted"
HeadedUnsorted ==
    { i \in 1..Len(EmittedBuckets) : EmittedBuckets[i].display_name = Unsorted }

(***************************************************************************)
(* C9: a folder whose name normalizes to empty is treated like a folder    *)
(* named "Unsorted": the bookmarks directly under the root, those of the   *)
(* empty-named folders and those of a folder named "Unsorted" land in one  *)
(* single bucket, and the output never holds two folders headed            *)
(* "Unsorted".                                                             *)
(***************************************************************************)
C9_SingleUnsortedBucket ==
    pc = "flat" =>
        /\ Cardinality(BucketsHolding(CollectedBuckets, UnsortedBookmarks)) <= 1
        /\ Cardinality(HeadedUnsorted) <= 1

(***************************************************************************)
(* First-seen attributes                                                   *)
(***************************************************************************)
\* the attributes of the first folder the walk files under the bucket key:
\* the root, for the reserved bucket, is filed with no attributes
FirstSeenAttrs(key) ==
    IF key = unsorted_key THEN {}
    ELSE input[WalkOrder[DiscoveryRank(key)]].attrs

(***************************************************************************)
(* C10: first-seen attributes are kept.  The h3_attrs of every bucket that *)
(* collect_flat_buckets builds are the attributes of the first folder      *)
(* discovered with the bucket's normalized name; a later folder of that    *)
(* name never replaces them, also when the first folder has none.          *)
(***************************************************************************)
C10_FirstSeenAttrsKept ==
    pc = "flat" =>
        \A i \in 1..Len(buckets) :
            /\ buckets[i].h3_attrs = CollectedBuckets[i].h3_attrs
            /\ buckets[i].h3_attrs = FirstSeenAttrs(buckets[i].key)

(***************************************************************************)
(* The flattened file, read back                                           *)
(***************************************************************************)
\* the lines the flatten tool writes between its header and its footer
FlatFile == dump_flat_html(parser.bookmarks, buckets)

\* the positions of the heading lines of a file
HeadingLines(file) == { i \in 1..Len(file) : file[i].tag = "H3" }

\* the n-th heading line's position
NthHeading(file, n) ==
    CHOOSE i \in HeadingLines(file) :
        Cardinality({ j \in HeadingLines(file) : j <= i }) = n

\* the end of the folder whose heading is line i: the next list end
FolderEnd(file, i) ==
    CHOOSE e \in (i+1)..Len(file) :
        file[e].tag = "/DL" /\ \A j \in (i+1)..(e-1) : file[j].tag # "/DL"

\* the href values of the anchors written in the n-th folder, in order
FolderHrefs(file, n) ==
    LET i == NthHeading(file, n)
        anchors == SelectSeq(SubSeq(file, i + 2, FolderEnd(file, i) - 1),
                             LAMBDA l : l.tag = "A")
    IN [k \in 1..Len(anchors) |-> anchors[k].attrs[1][2]]

\* every folder of the file is a heading, a list start, one anchor or more
\* and the list end, and the file holds nothing else
IsFlatFile(file) ==
    /\ \A i \in 1..Len(file) :
          /\ file[i].tag = "H3" <=> (i = 1 \/ file[i-1].tag = "/DL")
          /\ file[i].tag = "DL" <=> (i > 1 /\ file[i-1].tag = "H3")
          /\ file[i].tag \in {"H3", "DL", "A", "/DL"}
          /\ file[i].tag = "/DL" => file[i-1].tag = "A"
    /\ file # <<>> => file[Len(file)].tag = "/DL"

\* the bookmarks that survive by the order of the buckets
Survivors == { FirstInBucketOrder(k) : k \in InputKeys }

\* the keys of the buckets that keep one of the bookmarks bs
HomeKeys(bs) == { HomeKey(a) : a \in bs }

\* the n-th of these keys by discovery
NthKey(keys, n) ==
    CHOOSE k \in keys :
        Cardinality({ h \in keys : DiscoveryRank(h) < DiscoveryRank(k) }) = n - 1

\* the bookmarks bs in bucket order
RECURSIVE InBucketOrder(_)
InBucketOrder(bs) ==
    IF bs = {} THEN <<>>
    ELSE LET a == CHOOSE x \in bs : \A y \in bs \ {x} : BucketOrderBefore(x, y)
         IN <<a>> \o InBucketOrder(bs \ {a})

\* the hrefs, as written, of those of the bookmarks bs that are filed under
\* the key, in bucket order
ExpectedHrefs(bs, key) ==
    LET mine == InBucketOrder({ a \in bs : HomeKey(a) = key })
    IN [i \in 1..Len(mine) |-> escape_html(parser.bookmarks[mine[i]].href)]

(***************************************************************************)
(* C11: flatten emission.  The file holds exactly the buckets that keep a  *)
(* bookmark, in the order the walk discovered them (the reserved Unsorted  *)
(* bucket first); in each folder the kept bookmarks stand in the order     *)
(* they were appended (contributing folders in walk order, document order  *)
(* in a folder); and no folder of the file holds a sub-folder.             *)
(***************************************************************************)
C11_FlattenEmission ==
    pc = "flat" =>
        LET file == FlatFile
            kept == Survivors
            keys == HomeKeys(kept)
        IN /\ IsFlatFile(file)
           /\ Cardinality(HeadingLines(file)) = Cardinality(keys)
           /\ \A n \in 1..Cardinality(keys) :
                 FolderHrefs(file, n) = ExpectedHrefs(kept, NthKey(keys, n))

\* the flatten engine ran on a document that gives an empty bucket between two
\* buckets that keep bookmarks, and a bucket fed by two folders
C11_Witness ==
    /\ pc = "flat"
    /\ \E i, j, k \in 1..Len(buckets) :
          /\ i < j /\ j < k
          /\ buckets[i].bookmarks # <<>>
          /\ buckets[j].bookmarks = <<>>
          /\ buckets[k].bookmarks # <<>>
    /\ Cardinality(HeadingLines(FlatFile)) = 2

\* the flatten engine ran on a document where two folders of one normalized
\* name each gave a kept bookmark to the same folder of the file
C11_MergedWitness ==
    /\ pc = "flat"
    /\ \E n \in 1..Cardinality(HeadingLines(FlatFile)) : \E a, b \in Survivors :
          /\ a # b
          /\ ParentOf(a) # ParentOf(b)
          /\ FolderHrefs(FlatFile, n)
             = <<parser.bookmarks[a].href, parser.bookmarks[b].href>>

(***************************************************************************)
(* normalize_url called on its own.  The URLs are written from parts:      *)
(* scheme, authority, path, query pairs and fragment, each possibly        *)
(* absent (<<>>), or are short raw strings (kept whole in the path part).  *)
(***************************************************************************)
MaxRawLen == 3

Str_http == <<"h","t","t","p">>
Str_HTTP == <<"H","T","T","P">>
Str_ex_com == <<"e","x",".","c","o","m">>
Str_EX_com == <<"E","X",".","c","o","m">>

\* query pairs as written: plain, tracking, tracking, percent-encoded, bare
Pair_q == <<"q","=","1">>
Pair_utm == <<"u","t","m","_","s","o","u","r","c","e","=","x">>
Pair_ref == <<"r","e","f","=","2">>
Pair_enc == <<"a","=","%","2","B","+","c">>
Pair_bare == <<"b">>

TrackingPairs == {Pair_utm, Pair_ref}

Schemes == {<<>>, Str_http, Str_HTTP}
\* an authority, when present, is a one-element sequence: it may be empty
\* ("//" and nothing), and "[" makes urlsplit raise
Authorities == {<<>>, << <<>> >>, <<Str_ex_com>>, <<Str_EX_com>>, << <<"[">> >>}
Paths ==
    {<<>>, <<"/">>, <<"/","/">>, <<"/","a">>, <<"/","a","/">>, <<"/","a","/","/">>,
     <<"/","/","A">>}
Queries ==
    {<<>>, << <<Pair_utm>> >>, << <<Pair_q>> >>, << <<Pair_q, Pair_utm>> >>,
     << <<Pair_ref, Pair_q>> >>, << <<Pair_utm, Pair_ref>> >>,
     << <<Pair_enc>> >>, << <<Pair_bare, Pair_utm>> >>}
Fragments == {<<>>, << <<"f">> >>}

\* the written URLs; a path that begins "//" needs an authority before it
UrlParts ==
    { p \in [scheme : Schemes, netloc : Authorities, path : Paths,
             query : Queries, fragment : Fragments] :
        prefix(p.path, 2) = <<"/","/">> => p.netloc # <<>> }

RawChars == {"a", "/", ":", "?", "#", "=", "&", "%", "2", "+", " "}

RawStrings == UNION { [1..n -> RawChars] : n \in 0..MaxRawLen }

RawParts(raw) ==
    [scheme |-> <<>>, netloc |-> <<>>, path |-> raw, query |-> <<>>, fragment |-> <<>>]

\* the URL string of the parts
compose(p) ==
    (IF p.scheme # <<>> THEN p.scheme \o <<":">> ELSE <<>>)
    \o (IF p.netloc # <<>> THEN <<"/","/">> \o p.netloc[1] ELSE <<>>)
    \o p.path
    \o (IF p.query # <<>> THEN <<"?">> \o join_with(p.query[1], "&") ELSE <<>>)
    \o (IF p.fragment # <<>> THEN <<"#">> \o p.fragment[1] ELSE <<>>)

\* (a) the parts without their tracking pairs; with no pair left, no query
WithoutTracking(p) ==
    IF p.query = <<>> THEN p
    ELSE LET rest == SelectSeq(p.query[1], LAMBDA kv : kv \notin TrackingPairs)
         IN [p EXCEPT !.query = IF rest = <<>> THEN <<>> ELSE <<rest>>]

\* (b) the parts without one trailing slash of a path other than "/"
WithoutTrailingSlash(p) ==
    IF p.path # <<>> /\ p.path # <<"/">> /\ p.path[Len(p.path)] = "/"
    THEN [p EXCEPT !.path = SubSeq(@, 1, Len(@) - 1)]
    ELSE p

\* (c) the parts without the fragment
WithoutFragment(p) == [p EXCEPT !.fragment = <<>>]

\* (d) the parts with scheme and authority in lower case
InLowerCase(p) ==
    [p EXCEPT !.scheme = lower(@),
              !.netloc = IF @ = <<>> THEN <<>> ELSE <<lower(@[1])>>]

\* the URLs that differ from p in some of (a), (b), (c), (d) only
VaryTracking(ts, p) == IF "a" \in ts THEN WithoutTracking(p) ELSE p
VarySlash(ts, p) == IF "b" \in ts THEN WithoutTrailingSlash(p) ELSE p
VaryFragment(ts, p) == IF "c" \in ts THEN WithoutFragment(p) ELSE p
VaryCase(ts, p) == IF "d" \in ts THEN InLowerCase(p) ELSE p

Variants(p) ==
    { VaryTracking(ts, VarySlash(ts, VaryFragment(ts, VaryCase(ts, p)))) :
        ts \in SUBSET {"a", "b", "c", "d"} }

\* the engines' variables while a function is called on its own
EnginesIdle ==
    /\ vocabulary = [anchors |-> {}, heading_attrs |-> {}, heading_texts |-> {}]
    /\ parser = NetscapeParser
    /\ pc = "call"
    /\ input = <<>>
    /\ seen = {}
    /\ stats = <<>>
    /\ buckets = <<>>
    /\ feed = NoFeed

\* a call record: the arguments waiting, in order, and the values returned
Call(fn, parts, variant, args) ==
    [fn |-> fn, parts |-> parts, variant |-> variant, args |-> args, rets |-> <<>>]

\* normalize_url is to be called on a URL and on one of its variants, and
\* then on what the first call returned
InitUrl ==
    /\ EnginesIdle
    /\ \/ \E p \in UrlParts : \E v \in Variants(p) :
             call = Call("normalize_url", p, v, <<compose(p), compose(v)>>)
       \/ \E raw \in RawStrings :
             call = Call("normalize_url", RawParts(raw), RawParts(raw), <<raw, raw>>)

\* key = normalize_url(args[k]) for the next waiting argument
call_normalize_url ==
    /\ call.fn = "normalize_url"
    /\ Len(call.rets) < Len(call.args)
    /\ LET key == normalize_url(call.args[Len(call.rets) + 1])
       IN call' = [call EXCEPT !.rets = Append(@, key),
                               !.args = IF Len(call.rets) = 0 THEN Append(@, key) ELSE @]
    /\ UNCHANGED <<vocabulary, parser, pc, input, seen, stats, buckets, feed>>

NextUrl == call_normalize_url

SpecUrl == InitUrl /\ [][NextUrl]_vars

\* what the calls returned: the key of the URL, of its variant, and of the key
UrlKey == call.rets[1]
VariantKey == call.rets[2]
KeyOfKey == call.rets[3]

\* the URL was written from parts (it is not one of the raw strings)
Written == call.fn = "normalize_url" /\ call.parts \in UrlParts

\* something of the URL is left to reassemble once fragment, tracking pairs
\* and trailing slashes are gone: a scheme, an authority, a path, another pair
Reassembles(p) ==
    \/ p.scheme # <<>>
    \/ p.netloc # <<>> /\ p.netloc[1] # <<>>
    \/ p.path = <<"/">>
    \/ \E i \in 1..Len(p.path) : p.path[i] # "/"
    \/ p.query # <<>> /\ \E i \in 1..Len(p.query[1]) : p.query[1][i] \notin TrackingPairs

\* urlsplit takes the URL: the brackets of its authority are balanced
Splits(p) == p.netloc = <<>> \/ ~urlsplit_raises(p.netloc[1])

\* the path is made of slashes only, and more than one
SlashesOnly(path) == Len(path) > 1 /\ \A i \in 1..Len(path) : path[i] = "/"

(***************************************************************************)
(* C12, as claimed: normalization equivalence.  Two URLs that differ only  *)
(* in tracking pairs, a trailing slash of a path other than "/", the       *)
(* fragment, or the case of scheme and authority have the same key; also   *)
(* URLs with no scheme, authority or path.  (With a common form of the two *)
(* URLs among the variants, equal keys of a URL and each of its variants   *)
(* is equal keys of any two of them.)                                      *)
(***************************************************************************)
C12_NormalizationEquivalence ==
    (Written /\ Len(call.rets) >= 2) => UrlKey = VariantKey

(***************************************************************************)
(* C12, amended: the same, for the URLs that urlsplit takes and that have  *)
(* a scheme, an authority, a path with a character other than "/" (or the  *)
(* path "/"), or a pair that is no tracking pair; and a trailing slash     *)
(* makes no difference on a path that is not made of slashes only.         *)
(***************************************************************************)
C12_EquivalenceOfReassembledUrls ==
    ( /\ Written /\ Len(call.rets) >= 2
      /\ Splits(call.parts)
      /\ Reassembles(call.parts)
      /\ SlashesOnly(call.parts.path) => call.variant.path = call.parts.path )
    => UrlKey = VariantKey

\* the spec's own pair, and more: a URL with upper-case scheme and authority,
\* a trailing slash, a tracking pair and a fragment got the key of the URL
\* without all these
C12_Witness ==
    /\ Written /\ Len(call.rets) >= 2
    /\ call.parts = [scheme |-> Str_HTTP, netloc |-> <<Str_EX_com>>,
                     path |-> <<"/","a","/">>, query |-> << <<Pair_utm>> >>,
                     fragment |-> << <<"f">> >>]
    /\ call.variant = [scheme |-> Str_http, netloc |-> <<Str_ex_com>>,
                       path |-> <<"/","a">>, query |-> <<>>, fragment |-> <<>>]
    /\ UrlKey = compose(call.variant)
    /\ VariantKey = UrlKey

(***************************************************************************)
(* C13: normalization idempotence.  For every URL string u,                *)
(* normalize_url(normalize_url(u)) = normalize_url(u); also when the       *)
(* first call falls back to returning u.                                   *)
(***************************************************************************)
C13_NormalizationIdempotence ==
    (call.fn = "normalize_url" /\ Len(call.rets) = 3) => KeyOfKey = UrlKey

(***************************************************************************)
(* The trailing slashes of a plain URL: lower case, no query, no fragment, *)
(* and an authority when it has a scheme                                   *)
(***************************************************************************)
Plain(p) ==
    /\ p \in UrlParts
    /\ p = InLowerCase(p)
    /\ p.query = <<>> /\ p.fragment = <<>>
    /\ p.netloc \in {<<>>, <<Str_ex_com>>}
    /\ p.scheme # <<>> => p.netloc # <<>>

EndsInSlash(path) == path # <<>> /\ path[Len(path)] = "/"

(***************************************************************************)
(* C14, as claimed: trailing-slash rule.  A path that ends in one or more  *)
(* slashes and is not "/" loses exactly one of them; the path "/" is left  *)
(* as it is.                                                               *)
(***************************************************************************)
C14_SingleTrailingSlash ==
    (call.fn = "normalize_url" /\ Len(call.rets) >= 1 /\ Plain(call.parts)) =>
        /\ (EndsInSlash(call.parts.path) /\ call.parts.path # <<"/">>)
              => UrlKey = compose([call.parts EXCEPT
                                     !.path = SubSeq(@, 1, Len(@) - 1)])
        /\ call.parts.path = <<"/">> => UrlKey = compose(call.parts)

(***************************************************************************)
(* C14, amended: a path that ends in one or more slashes and is not "/"    *)
(* loses all of them, also when nothing else is left of it; the path "/"   *)
(* is left as it is.                                                       *)
(***************************************************************************)
C14_AllTrailingSlashes ==
    (call.fn = "normalize_url" /\ Len(call.rets) >= 1 /\ Plain(call.parts)) =>
        /\ (EndsInSlash(call.parts.path) /\ call.parts.path # <<"/">>)
              => UrlKey = compose([call.parts EXCEPT !.path = rstrip(@, {"/"})])
        /\ call.parts.path = <<"/">> => UrlKey = compose(call.parts)

\* normalize_url returned for a URL whose path ends in two slashes
C14_Witness ==
    /\ call.fn = "normalize_url" /\ Len(call.rets) >= 1
    /\ Plain(call.parts)
    /\ call.parts.scheme = Str_http
    /\ call.parts.path = <<"/","a","/","/">>
    /\ UrlKey = Str_http \o <<":","/","/">> \o Str_ex_com \o <<"/","a">>


(***************************************************************************)
(* The parser fed one event at a time: HTMLParser.feed calls               *)
(* handle_starttag, handle_endtag and handle_data in document order, and   *)
(* the document may be any sequence of tags and texts.                     *)
(***************************************************************************)
MaxOpenLists == 3
MaxTextBuf == 1
MaxHeadings == 2
MaxAnchors == 2

StartTags == {"dt", "h3", "a", "dl", "p"}
EndTags == {"dt", "h3", "a", "dl"}

\* the attribute lists a start tag of the document may carry
StartAttrs(tag) ==
    CASE tag = "h3" -> vocabulary.heading_attrs
      [] tag = "a" -> vocabulary.anchors
      [] OTHER -> {{}}

\* the Folder created by the innermost open list that created one: lists holds,
\* for every <DL> not yet closed, the Folder it created (0: it created none)
InnermostFolder(lists) ==
    LET made == {i \in 1..Len(lists) : lists[i] # 0}
    IN IF made = {} THEN RootId
       ELSE lists[CHOOSE i \in made : \A j \in made : j <= i]

InitParser ==
    /\ vocabulary = [anchors |-> {Href(UrlA)},
                     heading_attrs |-> {{}},
                     heading_texts |-> {Name_A}]
    /\ parser = NetscapeParser
    /\ pc = "feed"
    /\ input = <<>>
    /\ seen = {}
    /\ stats = <<>>
    /\ buckets = <<>>
    /\ call = NoCall
    /\ feed = [lists |-> <<>>,          \* the <DL> elements open in the document
               balanced |-> TRUE,       \* no </DL> came without an open <DL>
               anonymous_at_root |-> FALSE,   \* a <DL> without a declaration
               anonymous_in_folder |-> FALSE, \* opened under the root / a Folder
               declared |-> <<>>,       \* the names recorded at </H3>
               created |-> <<>>,        \* the declarations a <DL> found pending
               parents |-> <<>>]        \* per Bookmark, the Folder around its <A>

\* HTMLParser.feed reaches a start tag
on_starttag(tag, attrs) ==
    /\ pc = "feed"
    /\ tag = "dl" => Len(feed.lists) < MaxOpenLists
    /\ parser' = handle_starttag(parser, tag, attrs)
    /\ feed' = IF tag # "dl" THEN feed
               ELSE IF parser.pending_folder_title # <<>>
               THEN [feed EXCEPT !.lists = Append(@, Len(parser.folders) + 1),
                                 !.created = Append(@, parser.pending_folder_title[1])]
               ELSE [feed EXCEPT !.lists = Append(@, 0),
                                 !.anonymous_at_root = @ \/ Len(parser.stack) = 1,
                                 !.anonymous_in_folder = @ \/ Len(parser.stack) > 1]
    /\ UNCHANGED <<vocabulary, pc, input, seen, stats, buckets, call>>

\* HTMLParser.feed reaches an end tag
on_endtag(tag) ==
    /\ pc = "feed"
    /\ (tag = "a" /\ parser.collect_text_for = "A") =>
           Len(parser.bookmarks) < MaxAnchors
    /\ (tag = "h3" /\ parser.collect_text_for = "H3") =>
           Len(feed.declared) < MaxHeadings
    /\ parser' = handle_endtag(parser, tag)
    /\ feed' = IF tag = "dl"
               THEN IF feed.lists # <<>>
                    THEN [feed EXCEPT !.lists = SubSeq(@, 1, Len(@) - 1)]
                    ELSE [feed EXCEPT !.balanced = FALSE]
               ELSE IF tag = "a" /\ parser.collect_text_for = "A"
               THEN [feed EXCEPT !.parents = Append(@, InnermostFolder(feed.lists))]
               ELSE IF tag = "h3" /\ parser.collect_text_for = "H3"
               THEN [feed EXCEPT !.declared =
                                     Append(@, strip(join(parser.text_buf), Whitespace))]
               ELSE feed
    /\ UNCHANGED <<vocabulary, pc, input, seen, stats, buckets, call>>

\* HTMLParser.feed reaches text
on_data(data) ==
    /\ pc = "feed"
    /\ parser.collect_text_for \in {"H3", "A"} => Len(parser.text_buf) < MaxTextBuf
    /\ parser' = handle_data(parser, data)
    /\ feed' = feed
    /\ UNCHANGED <<vocabulary, pc, input, seen, stats, buckets, call>>

NextParser ==
    \/ \E tag \in StartTags : \E attrs \in StartAttrs(tag) : on_starttag(tag, attrs)
    \/ \E tag \in EndTags : on_endtag(tag)
    \/ \E data \in vocabulary.heading_texts : on_data(data)

SpecParser == InitParser /\ [][NextParser]_vars

\* the Folder that holds Bookmark b in the tree the parser is building
TreeParent(b) ==
    CHOOSE f \in 1..Len(parser.folders) :
        BookmarkRef(b) \in Range(parser.folders[f].children)

(***************************************************************************)
(* C15                                                                     *)
(***************************************************************************)
StackWellFormed ==
    /\ Len(parser.stack) >= 1
    /\ parser.stack[1] = RootId
    /\ \A i \in 1..Len(parser.stack) : parser.stack[i] \in 1..Len(parser.folders)

ListEndPopsOne ==
    on_endtag("dl") =>
        IF Len(parser.stack) > 1
        THEN parser' = [parser EXCEPT !.stack = SubSeq(@, 1, Len(@) - 1)]
        ELSE parser' = parser

\* C15: whatever start tags, end tags and texts were fed, the stack of open
\* folders is non-empty, its bottom element is the root and each element is
\* a Folder of the tree (so stack[-1].children.append never fails); a </DL>
\* pops exactly one folder when the stack holds more than one and otherwise
\* changes nothing.
C15_StackInvariant == [](StackWellFormed) /\ [][ListEndPopsOne]_vars

\* a </DL> with nothing to pop beyond the root came after folders were
\* opened and closed, and was tolerated
C15_Witness ==
    /\ ~feed.balanced
    /\ Len(parser.folders) > 1
    /\ parser.stack = <<RootId>>

(***************************************************************************)
(* C16                                                                     *)
(***************************************************************************)
HeadingEndOnlyDeclares ==
    on_endtag("h3") =>
        /\ parser'.folders = parser.folders
        /\ parser'.stack = parser.stack
        /\ parser.collect_text_for = "H3" => parser'.pending_folder_title # <<>>

ListStartCreatesFolder ==
    on_starttag("dl", {}) =>
        IF parser.pending_folder_title # <<>>
        THEN LET decl == parser.pending_folder_title[1]
                 id == Len(parser.folders) + 1
                 top == parser.stack[Len(parser.stack)]
             IN /\ Len(parser'.folders) = id
                /\ parser'.folders[id] = Folder(decl.name, decl.attrs)
                /\ parser'.folders[top].children =
                       Append(parser.folders[top].children, FolderRef(id))
                /\ parser'.stack = Append(parser.stack, id)
                /\ parser'.pending_folder_title = <<>>
        ELSE parser' = parser

OnlyListStartCreates ==
    Len(parser'.folders) # Len(parser.folders) =>
        on_starttag("dl", {}) /\ parser.pending_folder_title # <<>>

\* the Folders of the tree are, in order, the declarations that a <DL> found
\* pending
FoldersAreOpenedDeclarations ==
    /\ Len(parser.folders) - 1 = Len(feed.created)
    /\ \A i \in 1..Len(feed.created) :
          /\ parser.folders[i + 1].name = feed.created[i].name
          /\ parser.folders[i + 1].attrs = feed.created[i].attrs

\* C16: </H3> only records a pending folder declaration and creates no
\* Folder; a <DL> that finds a declaration pending creates the Folder,
\* appends it to the stack top, pushes it and clears the declaration; a <DL>
\* that finds none changes nothing; nothing else creates a Folder.  So the
\* tree has as many Folders as <DL>s found a declaration pending, and a
\* heading overwritten by a later one before a list opens yields no Folder.
C16_DeferredFolderCreation ==
    /\ [](FoldersAreOpenedDeclarations)
    /\ [][HeadingEndOnlyDeclares /\ ListStartCreatesFolder /\ OnlyListStartCreates]_vars

\* the heading "A" was overwritten by a heading without text before the list
\* opened: the only Folder is the one without a name
C16_Witness ==
    /\ feed.declared = <<Name_A, <<>>>>
    /\ parser.pending_folder_title = <<>>
    /\ Len(parser.folders) = 2
    /\ parser.folders[2].name = <<>>

(***************************************************************************)
(* C19                                                                     *)
(***************************************************************************)
ParentsAsEnclosed ==
    \A b \in 1..Len(parser.bookmarks) : TreeParent(b) = feed.parents[b]

\* C19 as stated: while every </DL> closed an open <DL>, each Bookmark is a
\* child of the Folder created by the innermost <DL> around its <A> that is
\* not yet closed and created a Folder (the root when there is none), also
\* when some <DL>s opened without a pending declaration.
C19_BookmarkInEnclosingFolder == feed.balanced => ParentsAsEnclosed

\* C19, amended: the same, provided every <DL> that opened without a
\* pending declaration opened while the root alone was on the stack.
C19_BookmarkInEnclosingFolderAtRoot ==
    (feed.balanced /\ ~feed.anonymous_in_folder) => ParentsAsEnclosed

\* a <DL> without a declaration was opened under the root and closed again;
\* one Bookmark went into a Folder inside it and one, after it, to the root
C19_Witness ==
    /\ feed.balanced
    /\ feed.anonymous_at_root
    /\ ~feed.anonymous_in_folder
    /\ feed.lists = <<>>
    /\ Len(parser.folders) = 2
    /\ feed.parents = <<2, RootId>>
    /\ ParentsAsEnclosed

(***************************************************************************)
(* C17                                                                     *)
(***************************************************************************)
\* where the bookmark b is filed: the <<bucket, position>> pairs that hold it
FiledAt(bucketSeq, b) ==
    { <<i, j>> \in (1..Len(bucketSeq)) \X (1..Len(parser.bookmarks)) :
         j <= Len(bucketSeq[i].bookmarks) /\ bucketSeq[i].bookmarks[j] = b }

LinesTagged(file, tag) == { i \in 1..Len(file) : file[i].tag = tag }

\* C17: collect_flat_buckets files every bookmark of the tree exactly once,
\* in the bucket of its direct parent folder (the reserved Unsorted bucket
\* for the root); after dedupe_bookmarks_globally urls_kept + urls_removed
\* is the number of bookmarks of the input tree, urls_kept the number of
\* bookmarks written and folders_total the number of folders written.
C17_FlattenConservation ==
    pc = "flat" =>
        LET collected == CollectedBuckets
            file == FlatFile
        IN /\ \A b \in Range(InputBookmarks) :
                 /\ Cardinality(FiledAt(collected, b)) = 1
                 /\ \A at \in FiledAt(collected, b) : collected[at[1]].key = HomeKey(b)
           /\ stats.urls_kept + stats.urls_removed = Len(InputBookmarks)
           /\ stats.urls_kept = Cardinality(LinesTagged(file, "A"))
           /\ stats.folders_total = Cardinality(LinesTagged(file, "H3"))

\* a folder inside a folder, a bookmark in each and one under the root, two
\* of them duplicates: three buckets filed, two folders written
C17_Witness ==
    /\ pc = "flat"
    /\ \E f, g \in 2..Len(input) :
          /\ FolderRef(g) \in Range(input[f].children)
          /\ DirectBookmarks(input, f) # {}
          /\ DirectBookmarks(input, g) # {}
          /\ bucket_key(input[f].name) # bucket_key(input[g].name)
    /\ DirectBookmarks(input, RootId) # {}
    /\ stats.urls_removed = 1
    /\ stats.urls_kept = 2
    /\ stats.folders_total = 2

(***************************************************************************)
(* C18                                                                     *)
(***************************************************************************)
\* the bookmarks of the input whose href is empty
EmptyHrefBookmarks ==
    { b \in Range(InputBookmarks) : parser.bookmarks[b].href = <<>> }

OutputBookmarks == IF pc = "pruned" THEN PrunedBookmarks ELSE FlatBookmarks

\* C18: in both engines the normalized key of a bookmark is empty exactly
\* when its href is empty, and such a bookmark is never kept: it is not in
\* the output, it is counted in urls_removed (urls_kept counts the written
\* bookmarks only), and the empty key is never added to seen - also when it
\* is the only bookmark and seen is empty.
C18_EmptyKeyNeverKept ==
    pc \in {"pruned", "flat"} =>
        /\ \A b \in Range(InputBookmarks) :
              KeyOf(b) = <<>> <=> parser.bookmarks[b].href = <<>>
        /\ Range(OutputBookmarks) \cap EmptyHrefBookmarks = {}
        /\ <<>> \notin seen
        /\ stats.urls_kept = Len(OutputBookmarks)
        /\ stats.urls_removed = Len(InputBookmarks) - Len(OutputBookmarks)
        /\ stats.urls_removed >= Cardinality(EmptyHrefBookmarks)

\* the prune engine ran on a document whose only bookmark has no href
C18_Witness ==
    /\ pc = "pruned"
    /\ Len(InputBookmarks) = 1
    /\ EmptyHrefBookmarks # {}
    /\ seen = {}
    /\ stats.urls_removed = 1
    /\ stats.urls_kept = 0

\* the same for the flatten engine
C18_FlatWitness ==
    /\ pc = "flat"
    /\ Len(InputBookmarks) = 1
    /\ EmptyHrefBookmarks # {}
    /\ seen = {}
    /\ stats.urls_removed = 1
    /\ stats.urls_kept = 0

(***************************************************************************)
(* norm_folder_name called on its own: on a folder name, on the same name  *)
(* with a punctuation character set off by a space, and on its own result. *)
(***************************************************************************)
MaxNameLen == 3

NameChars == {"W", "a", " ", "-", NBSP, "Acirc"}

RECURSIVE NamesOfLength(_)
NamesOfLength(n) ==
    IF n = 0 THEN {<<>>}
    ELSE { <<c>> \o rest : c \in NameChars, rest \in NamesOfLength(n - 1) }

FolderNames == UNION { NamesOfLength(n) : n \in 0..MaxNameLen }

\* the name followed by " -", and the name led by "- "
SetOffPunctuation(name) == { name \o <<" ", "-">>, <<"-", " ">> \o name }

InitName ==
    /\ EnginesIdle
    /\ \E name \in FolderNames : \E v \in SetOffPunctuation(name) :
          call = Call("norm_folder_name", name, v, <<name, v>>)

\* key = norm_folder_name(args[k]) for the next waiting argument
call_norm_folder_name ==
    /\ call.fn = "norm_folder_name"
    /\ Len(call.rets) < Len(call.args)
    /\ LET key == norm_folder_name(call.args[Len(call.rets) + 1])
       IN call' = [call EXCEPT !.rets = Append(@, key),
                               !.args = IF Len(call.rets) = 0 THEN Append(@, key) ELSE @]
    /\ UNCHANGED <<vocabulary, parser, pc, input, seen, stats, buckets, feed>>

NextName == call_norm_folder_name

SpecName == InitName /\ [][NextName]_vars

\* what the calls returned: the key of the name, of the name with the
\* punctuation set off, and of the key
NameKey == call.rets[1]
SetOffKey == call.rets[2]
KeyOfNameKey == call.rets[3]

(***************************************************************************)
(* C20                                                                     *)
(***************************************************************************)
SurroundedByWhitespace(key) ==
    key # <<>> /\ (key[1] \in Whitespace \/ key[Len(key)] \in Whitespace)

\* C20: the key norm_folder_name returns is canonical: normalizing it again
\* returns it unchanged, it neither begins nor ends with whitespace, and a
\* name with a punctuation character set off by a space ("Work -") has the
\* key of the name without it ("Work"), so both fall into one bucket.
C20_CanonicalFolderKey ==
    Len(call.rets) = 3 =>
        /\ KeyOfNameKey = NameKey
        /\ ~SurroundedByWhitespace(NameKey)
        /\ ~SurroundedByWhitespace(SetOffKey)
        /\ SetOffKey = NameKey

\* what does hold: a punctuation character next to the name is stripped
\* ("W-" and "W" share the key "w"), the one set off by a space leaves the
\* space behind ("W -" has the key "w "), and a second call removes it
C20_SpaceLeftBehind ==
    (Len(call.rets) = 3 /\ call.parts = <<"W">> /\ call.variant = <<"W", " ", "-">>) =>
        /\ NameKey = <<"w">>
        /\ SetOffKey = <<"w", " ">>
        /\ norm_folder_name(SetOffKey) = <<"w">>
        /\ norm_folder_name(<<"W", "-">>) = <<"w">>

====
